---------------------------- MODULE Spec2Model ----------------------------
(***************************************************************************)
(* EDS container parser (eds_parser.py) and database importer              *)
(* (importer.py), as state machines.                                       *)
(*                                                                         *)
(* Text that the code converts (Row, Col, Tm element text, the formatted   *)
(* well position) is a sequence of Unicode code points, so that int(),     *)
(* chr() and the "02d" format are computed, not assumed.  Text that the    *)
(* code only copies and compares (names, identifiers) is a TLA+ string.    *)
(* A Python dict is an association list: a sequence of <<key, value>>      *)
(* pairs in insertion order.                                               *)
(***************************************************************************)
EXTENDS Integers, Sequences, FiniteSets, TLC

VARIABLES
    container,   \* the archive at file_path that parse() reads
    outcome,     \* how the last EdsParser.parse call ended
    file_path,   \* argument of the last process_file call
    ret,         \* return value of the last process_file call
    logged,      \* what the last process_file call logged
    committed,   \* the store's committed tables
    pending      \* the connection's view: committed plus its open transaction

vars == <<container, outcome, file_path, ret, logged, committed, pending>>

---------------------------------------------------------------------------
(* Bounds of the model.                                                    *)

MaxWells == 2        \* Well elements of a plate document
MaxSamples == 2      \* Sample elements of a sample document
MaxRefWells == 1     \* Well elements of a sample document
MaxImportWells == 2  \* Well elements of a document given to the importer

---------------------------------------------------------------------------
(* Python values.                                                          *)

None == "<None>"

\* `not s` for an optional string
Falsy(s) == s = None \/ s = ""

\* An optional child element and ElementTree's findtext(path, default).
NoElem == [present |-> FALSE, text |-> <<>>]
NoName == [present |-> FALSE, text |-> ""]
Elem(t) == [present |-> TRUE, text |-> t]
findtext(e, default) == IF e.present THEN e.text ELSE default

\* Code points of the characters the code reads or writes.
Digit(d) == 48 + d
IsDigit(c) == c >= 48 /\ c <= 57
IsUpper(c) == c >= 65 /\ c <= 90
IsSign(c) == c = 45 \/ c = 43

\* dict: association list in insertion order
DictKeys(d) == {d[i][1] : i \in 1..Len(d)}
DictHas(d, k) == \E i \in 1..Len(d) : d[i][1] = k
DictGet(d, k) == d[CHOOSE i \in 1..Len(d) : d[i][1] = k][2]
DictSetAppend(d, k, v) == Append(d, <<k, v>>)
DictSet(d, k, v) ==
    IF DictHas(d, k)
    THEN [i \in 1..Len(d) |-> IF d[i][1] = k THEN <<k, v>> ELSE d[i]]
    ELSE Append(d, <<k, v>>)

---------------------------------------------------------------------------
(* Conversions.                                                            *)

RECURSIVE DigitsValue(_)
DigitsValue(s) ==
    IF s = <<>> THEN 0
    ELSE DigitsValue(SubSeq(s, 1, Len(s) - 1)) * 10 + (s[Len(s)] - 48)

\* int(text): an optional sign, then one or more decimal digits; anything
\* else is a ValueError.  (Python also accepts surrounding white space and
\* single underscores between digits; no input below holds either.)
int(t) ==
    LET signed == Len(t) > 0 /\ IsSign(t[1])
        digits == IF signed THEN Tail(t) ELSE t
        ok == Len(digits) > 0 /\ \A i \in 1..Len(digits) : IsDigit(digits[i])
    IN  IF ~ok THEN [ok |-> FALSE, val |-> 0]
        ELSE [ok |-> TRUE,
              val |-> IF signed /\ t[1] = 45 THEN 0 - DigitsValue(digits)
                      ELSE DigitsValue(digits)]

\* float(text) of a Tm node: text None is a TypeError, non-numeric text a
\* ValueError; both are caught by the caller.  Inputs are whole numbers.
float(tm) ==
    IF ~tm.hasText THEN [ok |-> FALSE, val |-> 0] ELSE int(tm.text)

RECURSIVE Decimal(_)
Decimal(n) ==
    IF n < 10 THEN <<Digit(n)>> ELSE Append(Decimal(n \div 10), Digit(n % 10))

\* format(n, "02d") for n >= 0: zero-padded to a minimum width of two
Format02d(n) ==
    LET d == Decimal(n) IN IF Len(d) < 2 THEN <<Digit(0)>> \o d ELSE d

\* chr(n): a ValueError outside range(0x110000)
MaxCodePoint == 1114111
chr(n) ==
    IF n < 0 \/ n > MaxCodePoint THEN [ok |-> FALSE, val |-> 0]
    ELSE [ok |-> TRUE, val |-> n]

---------------------------------------------------------------------------
(* EdsParser: the extractors.                                              *)

NoTm == [present |-> FALSE, hasText |-> FALSE, text |-> <<>>]

\* root.findtext('.//Name'): the text of the first Name element of the
\* document in document order, "" if that element is empty.  The run-level
\* Name element, when there is one, precedes the Sample elements, whose Name
\* children are Name elements of the document too.
FirstName(root) ==
    IF root.name.present THEN root.name.text
    ELSE LET named == {i \in 1..Len(root.samples) : root.samples[i].name.present}
         IN  IF named = {} THEN None
             ELSE root.samples[CHOOSE i \in named : \A j \in named : i <= j].name.text

_extract_metadata(root) ==
    LET run_name == FirstName(root)
    IN  << <<"run_name", IF Falsy(run_name) THEN "Unknown Run" ELSE run_name>>,
           <<"instrument_serial", findtext(root.serial, None)>>,
           <<"run_start_time", findtext(root.started, None)>> >>

RECURSIVE SamplesFrom(_, _)
SamplesFrom(elems, samples) ==
    IF elems = <<>> THEN samples
    ELSE LET sample == Head(elems)
             s_id == sample.id
             s_name == findtext(sample.name, None)
             s_desc == findtext(sample.description, None)
         IN  SamplesFrom(Tail(elems),
                 IF ~Falsy(s_id) /\ ~Falsy(s_name)
                 THEN DictSet(samples, s_id,
                              [name |-> s_name, description |-> s_desc])
                 ELSE samples)

_extract_samples(root) == SamplesFrom(root.samples, <<>>)

\* lines 133-142: the sample name of one Well element.  well.refs lists the
\* ID attributes of the SampleRef elements nested in the well, in document
\* order (None for a SampleRef without ID); well.find('.//SampleRef') is
\* its head.
ResolveSampleNameDirectFirst(well, sample_map) ==
    IF ~Falsy(findtext(well.sampleName, None)) THEN well.sampleName.text
    ELSE IF well.refs # <<>> /\ DictHas(sample_map, well.refs[1])
         THEN DictGet(sample_map, well.refs[1]).name
         ELSE findtext(well.sampleName, None)
ResolveSampleName(well, sample_map) ==
    LET sample_ref == well.refs
        by_ref == IF sample_ref # <<>> /\ DictHas(sample_map, sample_ref[1])
                  THEN DictGet(sample_map, sample_ref[1]).name
                  ELSE None
    IN  IF Falsy(by_ref) THEN findtext(well.sampleName, None) ELSE by_ref

\* lines 146-153; None is <<>>, a float x is <<x>>
ResolveTm(well) ==
    IF well.tm.present /\ float(well.tm).ok THEN <<float(well.tm).val>> ELSE <<>>

\* lines 128-129
WellPos(row, col) == <<chr(65 + row).val>> \o Format02d(col + 1)

RECURSIVE WellsFrom(_, _, _)
WellsFrom(elems, sample_map, wells) ==
    IF elems = <<>> THEN [raised |-> FALSE, wells |-> wells]
    ELSE LET well == Head(elems)
             row == int(findtext(well.row, <<45, 49>>))
             col == int(findtext(well.col, <<45, 49>>))
         IN  IF ~row.ok \/ ~col.ok THEN WellsFrom(Tail(elems), sample_map, wells)
             ELSE IF row.val < 0 \/ col.val < 0
                  THEN WellsFrom(Tail(elems), sample_map, wells)
             ELSE IF ~chr(65 + row.val).ok THEN [raised |-> TRUE, wells |-> wells]
             ELSE LET well_pos == WellPos(row.val, col.val)
                  IN  WellsFrom(Tail(elems), sample_map,
                          DictSet(wells, well_pos,
                              [well_position |-> well_pos,
                               sample_name |-> ResolveSampleName(well, sample_map),
                               tm_value |-> ResolveTm(well),
                               target_dye |-> "SYBR",
                               sample_role |-> "Unknown"]))

_extract_wells(root, sample_map) == WellsFrom(root.wells, sample_map, <<>>)

\* Archive entry names, by directory, stem and extension.
Entry(dir, stem, ext) == [dir |-> dir, stem |-> stem, ext |-> ext]
experiment_xml_path == Entry(<<"apldbio", "sds">>, "experiment", "xml")
analysis_table_path == Entry(<<"apldbio", "sds">>, "analysis_result", "txt")
quant_bin_path == Entry(<<"apldbio", "sds", "quant">>, "1", "bin")

\* f.startswith('apldbio/sds/quant/') and f.endswith('.bin')
IsQuantFile(f) ==
    /\ Len(f.dir) >= 3
    /\ SubSeq(f.dir, 1, 3) = <<"apldbio", "sds", "quant">>
    /\ f.ext = "bin"

\* lines 207-214
PlaceholderWithTemperatures(pos, well_info) ==
    [well_position |-> pos,
     sample_name |-> well_info.sample_name,
     temperature_data |-> <<60, 61>>,
     fluorescence_data |-> <<>>]
PlaceholderWithData(pos, well_info) ==
    [well_position |-> pos,
     sample_name |-> well_info.sample_name,
     temperature_data |-> <<60, 61>>,
     fluorescence_data |-> <<1, 2>>]
Placeholder(pos, well_info) ==
    [well_position |-> pos,
     sample_name |-> well_info.sample_name,
     temperature_data |-> <<>>,
     fluorescence_data |-> <<>>]

RECURSIVE Placeholders(_)
Placeholders(well_map) ==
    IF well_map = <<>> THEN <<>>
    ELSE <<Placeholder(Head(well_map)[1], Head(well_map)[2])>>
         \o Placeholders(Tail(well_map))

\* The quant files are counted and logged, never read; the list of
\* fallback XML entries (line 174) is computed and never used.
_extract_melt_curvesUnlessBinary(namelist, well_map) ==
    LET quant_files == {f \in namelist : IsQuantFile(f)}
    IN  IF quant_files # {} THEN <<>> ELSE Placeholders(well_map)
_extract_melt_curves(namelist, well_map) ==
    LET quant_files == {f \in namelist : IsQuantFile(f)}
    IN  Placeholders(well_map)

---------------------------------------------------------------------------
(* EdsParser.parse                                                         *)

EmptyResults ==
    [metadata |-> <<>>, samples |-> <<>>, wells |-> <<>>, melt_curves |-> <<>>]

\* How a call ends: kind "none" (returns None), "result" (returns results)
\* or "raise" (exception exc leaves it, results being the dict built so
\* far); calls is the trace of the extractors it invoked.
Ended(kind, exc, results, calls) ==
    [kind |-> kind, exc |-> exc, results |-> results, calls |-> calls]

Unparsed == Ended("unparsed", "", EmptyResults, <<>>)

XmlPlateCalls == <<"_extract_metadata", "_extract_samples", "_extract_wells">>

\* line 37: the one entry the dispatch looks for
HasExperimentXmlAndNoTable(c) ==
    experiment_xml_path \in c.namelist /\ analysis_table_path \notin c.namelist
HasExperimentXml(c) == experiment_xml_path \in c.namelist

\* lines 32-59: the body of the try statement
ParseTry(c) ==
    IF ~c.isZip THEN Ended("raise", "BadZipFile", EmptyResults, <<>>)
    ELSE IF ~HasExperimentXml(c)
         THEN Ended("none", "", EmptyResults, <<>>)
    ELSE IF ~c.xml.wellFormed
         THEN Ended("raise", "ParseError", EmptyResults, <<>>)
    ELSE LET root == c.xml
             metadata == _extract_metadata(root)
             samples == _extract_samples(root)
             got == _extract_wells(root, samples)
         IN  IF got.raised
             THEN Ended("raise", "ValueError",
                        [EmptyResults EXCEPT !.metadata = metadata,
                                             !.samples = samples],
                        XmlPlateCalls)
             ELSE Ended("result", "",
                        [metadata |-> metadata,
                         samples |-> samples,
                         wells |-> got.wells,
                         melt_curves |-> _extract_melt_curves(c.namelist, got.wells)],
                        Append(XmlPlateCalls, "_extract_melt_curves"))

\* lines 19-68: both handlers log and return None
parseReturningPartial(c) ==
    LET body == ParseTry(c)
    IN  IF body.kind = "raise" /\ body.exc # "BadZipFile"
        THEN Ended("result", "", body.results, body.calls)
        ELSE IF body.kind = "raise"
             THEN Ended("none", "", EmptyResults, body.calls)
             ELSE body
parse(c) ==
    LET body == ParseTry(c)
    IN  IF body.kind = "raise"
        THEN IF body.exc = "BadZipFile"
             THEN Ended("none", "", EmptyResults, body.calls)
             ELSE Ended("none", "", EmptyResults, body.calls)
        ELSE body

---------------------------------------------------------------------------
(* Inputs: archives.                                                       *)

SeqsUpTo(S, n) == UNION {[1..k -> S] : k \in 0..n}

\* element texts, as code points
Txt0 == <<48>>
Txt1 == <<49>>
Txt7 == <<55>>
Txt11 == <<49, 49>>
Txt25 == <<50, 53>>
Txt26 == <<50, 54>>
Txt75 == <<55, 53>>
Txt98 == <<57, 56>>
Txt99 == <<57, 57>>
TxtMinus1 == <<45, 49>>
TxtX == <<120>>
TxtBeyondUnicode == <<49, 49, 49, 52, 48, 52, 55>>   \* 1114047 = 0x110000 - 65

WellElem(row, col, refs, sampleName, tm) ==
    [row |-> row, col |-> col, refs |-> refs, sampleName |-> sampleName, tm |-> tm]
SampleElem(id, name) == [id |-> id, name |-> name, description |-> NoName]

Doc(name, serial, started, samples, wells) ==
    [wellFormed |-> TRUE, name |-> name, serial |-> serial, started |-> started,
     samples |-> samples, wells |-> wells]
BlankDoc == Doc(NoName, NoName, NoName, <<>>, <<>>)
Malformed == [BlankDoc EXCEPT !.wellFormed = FALSE]

Archive(namelist, xml) == [isZip |-> TRUE, namelist |-> namelist, xml |-> xml]
NotAZip == [isZip |-> FALSE, namelist |-> {}, xml |-> BlankDoc]

NameLists == SUBSET {experiment_xml_path, analysis_table_path, quant_bin_path}
WithXml == {n \in NameLists : experiment_xml_path \in n}

\* archives that end the parse before any extraction
BrokenArchives ==
    {NotAZip}
    \cup {Archive(n, BlankDoc) : n \in NameLists \ WithXml}
    \cup {Archive(n, Malformed) : n \in WithXml}

\* one Well element, over the Row, Col and Tm texts
RowElems == {NoElem, Elem(<<>>), Elem(TxtX), Elem(TxtMinus1), Elem(Txt0), Elem(Txt7),
             Elem(Txt25), Elem(Txt26), Elem(TxtBeyondUnicode)}
ColElems == {NoElem, Elem(TxtX), Elem(TxtMinus1), Elem(Txt0), Elem(Txt11),
             Elem(Txt98), Elem(Txt99)}
TmElems == {NoTm,
            [present |-> TRUE, hasText |-> FALSE, text |-> <<>>],
            [present |-> TRUE, hasText |-> TRUE, text |-> TxtX],
            [present |-> TRUE, hasText |-> TRUE, text |-> Txt75]}
CoordinateDocs ==
    {Doc(NoName, NoName, NoName, <<>>, <<WellElem(r, c, <<>>, NoName, t)>>) :
        r \in RowElems, c \in ColElems, t \in TmElems}

\* plates of up to MaxWells wells with direct sample names
PlateWells ==
    {WellElem(r, c, <<>>, n, NoTm) :
        r \in {Elem(Txt0), Elem(Txt1)}, c \in {Elem(Txt0), Elem(Txt1)},
        n \in {NoName, Elem(""), Elem("N3")}}
PlateDocs ==
    {Doc(NoName, NoName, NoName, <<>>, w) : w \in SeqsUpTo(PlateWells, MaxWells)}

\* Sample tables and wells that refer to them
SampleElems ==
    {SampleElem("s1", Elem("N1")), SampleElem("s1", Elem("N2")),
     SampleElem("s2", Elem("N1")), SampleElem("s2", NoName),
     SampleElem(None, Elem("N1"))}
RefLists == {<<>>, <<"s1">>, <<"s2">>, <<"s1", "s2">>, <<"s2", "s1">>}
RefWells ==
    {WellElem(Elem(Txt0), Elem(Txt0), r, n, NoTm) :
        r \in RefLists, n \in {NoName, Elem("N3")}}
\* the i-th well of a sample document sits in column i - 1 of row 0
InColumns(w) == [i \in 1..Len(w) |-> [w[i] EXCEPT !.col = Elem(Decimal(i - 1))]]
SampleDocs ==
    {Doc(NoName, NoName, NoName, s, InColumns(w)) :
        s \in SeqsUpTo(SampleElems, MaxSamples),
        w \in SeqsUpTo(RefWells, MaxRefWells)}

\* run metadata
MetadataDocs ==
    {Doc(n, s, t, <<>>, <<>>) :
        n \in {NoName, Elem(""), Elem("RunA")},
        s \in {NoName, Elem("SN1")},
        t \in {NoName, Elem("2020-01-01")}}

Containers ==
    BrokenArchives
    \cup {Archive({experiment_xml_path}, d) :
             d \in CoordinateDocs \cup MetadataDocs \cup SampleDocs}
    \cup {Archive(n, d) : n \in WithXml, d \in PlateDocs}

\* what the importer is run on: runs, named or not, on plates of up to
\* MaxImportWells wells in successive columns of row 0, every second well
\* with a sample name; and a file that is no archive
ImportWell(i) ==
    WellElem(Elem(Txt0), Elem(Decimal(i - 1)), <<>>,
             IF i % 2 = 0 THEN Elem("N3") ELSE NoName, NoTm)
ImportDocs ==
    {Doc(n, NoName, NoName, <<>>, [i \in 1..k |-> ImportWell(i)]) :
        n \in {NoName, Elem("RunA")}, k \in 0..MaxImportWells}
ImportContainers ==
    {NotAZip} \cup {Archive({experiment_xml_path}, d) : d \in ImportDocs}

Paths == {<<"DataFiles", "a.eds">>, <<"DataFiles", "b.eds">>, <<"archive", "a.eds">>}

\* os.path.basename
basename(path) == path[Len(path)]

---------------------------------------------------------------------------
(* The store and the connection (importer.py).                             *)
(*                                                                         *)
(* A table is a set of rows.  The schema is not part of the repository:    *)
(* the id an INSERT ... RETURNING yields is the least id above those the   *)
(* connection sees in the table.  A transaction is a record t: the tables  *)
(* as the connection sees them (db), the number n of statements executed   *)
(* so far, and whether one of them raised.  The input fail numbers the     *)
(* statement that raises (0: none does); a statement that raises has no    *)
(* effect.                                                                 *)

EmptyDb == [experiments |-> {}, samples |-> {}, wells |-> {}, melt_curves |-> {}]

\* the id of the next row of a table, given the ids it holds
NextId(ids) == IF ids = {} THEN 1 ELSE (CHOOSE m \in ids : \A i \in ids : i <= m) + 1

\* cursor.execute of one statement: it raises, or has its effect
Execute(t, fail, effect) ==
    IF t.raised THEN t
    ELSE IF t.n + 1 = fail THEN [t EXCEPT !.n = @ + 1, !.raised = TRUE]
    ELSE [effect EXCEPT !.n = t.n + 1]

\* lines 45-49, on the tables the SELECT sees
experiment_existsByFileName(db, file_name, run_name) ==
    \E e \in db.experiments : e.file_name = file_name
experiment_exists(db, file_name, run_name) ==
    \E e \in db.experiments : e.file_name = file_name \/ e.run_name = run_name

\* line 119: f"Unknown_Sample_{experiment_id}_{well_pos}"; a name the well
\* carries is <<name>>
StoredSampleName(sample_name, experiment_id, well_pos) ==
    IF Falsy(sample_name) THEN <<"Unknown_Sample", experiment_id, well_pos>>
    ELSE <<sample_name>>

\* lines 51-71: the SELECT, then the INSERT when no row has the name.
\* The result is the transaction with field sample_id set.
get_or_create_sample(t, fail, sample_name) ==
    LET found == {r \in t.db.samples : r.sample_name = sample_name}
        looked == Execute(t, fail, t)
        new_id == NextId({r.sample_id : r \in t.db.samples})
    IN  IF looked.raised THEN looked
        ELSE IF found # {}
             THEN [looked EXCEPT !.sample_id = (CHOOSE r \in found : TRUE).sample_id]
             ELSE Execute(looked, fail,
                     [looked EXCEPT
                         !.db.samples = @ \cup {[sample_id |-> new_id,
                                                 sample_name |-> sample_name,
                                                 description |-> None]},
                         !.sample_id = new_id])

\* line 91
RECURSIVE CurvesMap(_, _)
CurvesMap(melt_curves, map) ==
    IF melt_curves = <<>> THEN map
    ELSE CurvesMap(Tail(melt_curves),
                   DictSet(map, Head(melt_curves).well_position, Head(melt_curves)))

\* lines 113-154: the loop over the wells of one file
RECURSIVE InsertWells(_, _, _, _, _)
InsertWells(t, fail, experiment_id, wells_data, curves_map) ==
    IF wells_data = <<>> \/ t.raised THEN t
    ELSE LET well_pos == Head(wells_data)[1]
             well_info == Head(wells_data)[2]
             sample_name == StoredSampleName(well_info.sample_name,
                                             experiment_id, well_pos)
             s == get_or_create_sample(t, fail, sample_name)
             well_id == NextId({r.well_id : r \in s.db.wells})
             w == Execute(s, fail,
                     [s EXCEPT
                         !.db.wells = @ \cup {[well_id |-> well_id,
                                               experiment_id |-> experiment_id,
                                               sample_id |-> s.sample_id,
                                               well_position |-> well_pos,
                                               target_dye |-> well_info.target_dye,
                                               sample_role |-> well_info.sample_role,
                                               tm_value |-> well_info.tm_value]}])
             curve_data == DictGet(curves_map, well_pos)
             c == IF /\ ~w.raised
                     /\ DictHas(curves_map, well_pos)
                     /\ curve_data.temperature_data # <<>>
                     /\ curve_data.fluorescence_data # <<>>
                  THEN Execute(w, fail,
                          [w EXCEPT
                              !.db.melt_curves = @ \cup
                                  {[experiment_id |-> experiment_id,
                                    well_id |-> well_id,
                                    temperature_data |-> curve_data.temperature_data,
                                    fluorescence_data |-> curve_data.fluorescence_data]}])
                  ELSE w
         IN  InsertWells(c, fail, experiment_id, Tail(wells_data), curves_map)

\* lines 93-157: the statements of the try block up to the commit, run on
\* the connection's view.  Field duplicate tells that the block returned
\* False at line 98.
Transaction(view, fail, file_name, data) ==
    LET metadata == data.metadata
        run_name == DictGet(metadata, "run_name")
        t0 == [db |-> view, n |-> 0, raised |-> FALSE,
               sample_id |-> 0, duplicate |-> FALSE]
        checked == Execute(t0, fail, t0)
    IN  IF checked.raised THEN checked
        ELSE IF experiment_exists(view, file_name, run_name)
             THEN [checked EXCEPT !.duplicate = TRUE]
        ELSE LET experiment_id == NextId({r.experiment_id : r \in view.experiments})
                 e == Execute(checked, fail,
                         [checked EXCEPT
                             !.db.experiments = @ \cup
                                 {[experiment_id |-> experiment_id,
                                   run_name |-> run_name,
                                   run_start_time |-> DictGet(metadata, "run_start_time"),
                                   instrument_serial |-> DictGet(metadata, "instrument_serial"),
                                   file_name |-> file_name]}])
                 filled == InsertWells(e, fail, experiment_id, data.wells,
                                       CurvesMap(data.melt_curves, <<>>))
             IN  Execute(filled, fail, filled)   \* conn.commit()

\* conn.rollback(): the connection's view is the committed tables again
RollbackKeepingWrites(store, view) == view
Rollback(store, view) == store

FailPoints == 0..(3 + 4 * MaxImportWells)

---------------------------------------------------------------------------
(* The parser on its own: an EdsParser is constructed on an archive and    *)
(* parse is called on it.                                                  *)

ParserInit ==
    /\ container \in Containers
    /\ outcome = Unparsed
    /\ file_path = <<>>
    /\ ret = FALSE
    /\ logged = ""
    /\ committed = EmptyDb
    /\ pending = EmptyDb

Parse ==
    /\ outcome' = parse(container)
    /\ UNCHANGED <<container, file_path, ret, logged, committed, pending>>

ParserNext == Parse

ParserSpec == ParserInit /\ [][ParserNext]_vars

---------------------------------------------------------------------------
(* The importer: process_file is called, file after file, on one           *)
(* connection to a store that starts empty.                                *)

Init ==
    /\ container = NotAZip
    /\ outcome = Unparsed
    /\ file_path = <<>>
    /\ ret = FALSE
    /\ logged = ""
    /\ committed = EmptyDb
    /\ pending = EmptyDb

\* lines 73-162
process_file(path, c, fail) ==
    LET file_name == basename(path)
        data == parse(c)
    IN  /\ file_path' = path
        /\ container' = c
        /\ outcome' = data
        /\ IF data.kind # "result"
           THEN /\ logged' = "Skipping: Parsing failed."
                /\ ret' = FALSE
                /\ UNCHANGED <<committed, pending>>
           ELSE LET t == Transaction(pending, fail, file_name, data.results)
                IN  IF t.raised
                    THEN /\ pending' = Rollback(committed, t.db)
                         /\ committed' = committed
                         /\ logged' = "Error processing"
                         /\ ret' = FALSE
                    ELSE IF t.duplicate
                    THEN /\ pending' = t.db
                         /\ committed' = committed
                         /\ logged' = "Skipping: Already exists in database."
                         /\ ret' = FALSE
                    ELSE /\ pending' = t.db
                         /\ committed' = t.db
                         /\ logged' = "Inserting experiment"
                         /\ ret' = TRUE

ProcessFile ==
    \E path \in Paths, c \in ImportContainers, fail \in FailPoints :
        process_file(path, c, fail)

Next == ProcessFile

Spec == Init /\ [][Next]_vars

---------------------------------------------------------------------------
(* Properties of EdsParser.parse, under ParserSpec.                        *)

Parsed == outcome.kind # "unparsed"
Returned == outcome.kind = "result"
Results == outcome.results

\* the Well elements that _extract_wells accepts, and where it puts them
Accepted(e) ==
    LET row == int(findtext(e.row, TxtMinus1))
        col == int(findtext(e.col, TxtMinus1))
    IN  row.ok /\ col.ok /\ row.val >= 0 /\ col.val >= 0
PositionOf(e) ==
    WellPos(int(findtext(e.row, TxtMinus1)).val, int(findtext(e.col, TxtMinus1)).val)
\* the last accepted Well element of the document at position pos
WellElementAt(pos) ==
    LET w == container.xml.wells
        at == {i \in 1..Len(w) : Accepted(w[i]) /\ PositionOf(w[i]) = pos}
    IN  w[CHOOSE i \in at : \A j \in at : j <= i]

ExtractionRaises(c) == _extract_wells(c.xml, _extract_samples(c.xml)).raised

\* C1: parse never lets an exception escape and never returns a partial
\* result: it returns None for an input that is no zip, that lacks both the
\* analysis-table and the experiment XML entry, or whose extraction raises,
\* and otherwise a result whose four parts are what the four extractors
\* give for the document.
C1_NoEscapeNoPartial ==
    Parsed =>
        /\ outcome.kind \in {"none", "result"}
        /\ Returned =>
              /\ Results.metadata = _extract_metadata(container.xml)
              /\ Results.samples = _extract_samples(container.xml)
              /\ ~ExtractionRaises(container)
              /\ Results.wells = _extract_wells(container.xml, Results.samples).wells
              /\ Results.melt_curves
                    = _extract_melt_curves(container.namelist, Results.wells)
        /\ ~container.isZip => outcome.kind = "none"
        /\ container.namelist \cap {analysis_table_path, experiment_xml_path} = {}
              => outcome.kind = "none"
        /\ ( /\ container.isZip
             /\ experiment_xml_path \in container.namelist
             /\ (~container.xml.wellFormed \/ ExtractionRaises(container)) )
              => outcome.kind = "none"

\* a well-formed document whose well extraction raised (chr out of range)
C1_Witness ==
    /\ Parsed
    /\ container.isZip
    /\ experiment_xml_path \in container.namelist
    /\ container.xml.wellFormed
    /\ ExtractionRaises(container)
    /\ outcome.kind = "none"

C3_CurvesHoldData ==
    Returned =>
        \A i \in 1..Len(Results.melt_curves) :
            /\ Results.melt_curves[i].temperature_data # <<>>
            /\ Results.melt_curves[i].fluorescence_data # <<>>

\* C3 amended: every melt curve of a result has an empty temperature_data
\* and an empty fluorescence_data; a curve holding data in either sequence
\* is never emitted.
C3_CurvesHoldNoData ==
    Returned =>
        \A i \in 1..Len(Results.melt_curves) :
            /\ Len(Results.melt_curves[i].temperature_data) = 0
            /\ Len(Results.melt_curves[i].fluorescence_data) = 0

C3_Witness == Returned /\ Len(Results.melt_curves) >= 2

\* C4: with or without binary quant entries, melt_curves holds exactly one
\* placeholder per well of the wells mapping, with empty data and that
\* well's sample_name, and the quant entries change nothing in the outcome.
C4_OnePlaceholderPerWell ==
    Parsed =>
        /\ Returned =>
              LET mc == Results.melt_curves
                  w == Results.wells
              IN  /\ {mc[i].well_position : i \in 1..Len(mc)} = DictKeys(w)
                  /\ \A i, j \in 1..Len(mc) :
                        mc[i].well_position = mc[j].well_position => i = j
                  /\ \A i \in 1..Len(mc) :
                        /\ mc[i].temperature_data = <<>>
                        /\ mc[i].fluorescence_data = <<>>
                        /\ mc[i].sample_name = DictGet(w, mc[i].well_position).sample_name
        /\ outcome.kind
              = parse([container EXCEPT
                          !.namelist = {f \in @ : ~IsQuantFile(f)}]).kind

\* binary entries present, two wells, one of them named
C4_Witness ==
    /\ Returned
    /\ \E f \in container.namelist : IsQuantFile(f)
    /\ Len(Results.melt_curves) = 2
    /\ Results.melt_curves[1].sample_name = "N3"

\* C5 as stated: every well of a result is stored under, and carries, a
\* position made of one letter A-Z and exactly two digits.
C5_PositionPattern ==
    Returned =>
        \A i \in 1..Len(Results.wells) :
            LET pos == Results.wells[i][1]
            IN  /\ Results.wells[i][2].well_position = pos
                /\ Len(pos) = 3
                /\ IsUpper(pos[1])
                /\ IsDigit(pos[2])
                /\ IsDigit(pos[3])

AcceptedSamples ==
    {i \in 1..Len(container.xml.samples) :
        /\ ~Falsy(container.xml.samples[i].id)
        /\ ~Falsy(findtext(container.xml.samples[i].name, None))}
C7_AnyResolvedRefWins ==
    Returned =>
        \A k \in 1..Len(Results.wells) :
            LET e == WellElementAt(Results.wells[k][1])
                name == Results.wells[k][2].sample_name
                resolved == {i \in 1..Len(e.refs) : DictHas(Results.samples, e.refs[i])}
            IN  IF resolved # {}
                THEN \E i \in resolved : name = DictGet(Results.samples, e.refs[i]).name
                ELSE name = findtext(e.sampleName, None)

\* C7 amended: only the first nested SampleRef of the well is tried.  If
\* its ID is a key of the Sample table the well gets that Sample's name;
\* otherwise the text of its direct SampleName child, None if it has none.
C7_FirstRefThenSampleName ==
    Returned =>
        \A k \in 1..Len(Results.wells) :
            LET e == WellElementAt(Results.wells[k][1])
                name == Results.wells[k][2].sample_name
            IN  IF e.refs # <<>> /\ DictHas(Results.samples, e.refs[1])
                THEN name = DictGet(Results.samples, e.refs[1]).name
                ELSE name = findtext(e.sampleName, None)

\* a resolved reference beside a SampleName child: the reference wins
C7_Witness ==
    /\ Returned
    /\ \E k \in 1..Len(Results.wells) :
          LET e == WellElementAt(Results.wells[k][1])
          IN  /\ e.refs # <<>>
              /\ DictHas(Results.samples, e.refs[1])
              /\ e.sampleName = Elem("N3")
              /\ Results.wells[k][2].sample_name
                    = DictGet(Results.samples, e.refs[1]).name

---------------------------------------------------------------------------
(* Properties of process_file, under Spec.                                 *)

\* the last call's file name and run name
LastFileName == basename(file_path)
LastRunName == DictGet(outcome.results.metadata, "run_name")

\* the rows of the store that belong to experiment row e
WellsOf(db, e) == {w \in db.wells : w.experiment_id = e.experiment_id}
CurvesOf(db, e) == {m \in db.melt_curves : m.experiment_id = e.experiment_id}

\* db holds, beyond the tables of old, exactly the rows of the file that the
\* last call parsed: its experiment row, one well row per well of the parse
\* result, each linked to a sample row of the well's name, the sample rows
\* made for those wells, and a curve row for each curve with data.
HoldsWholeFile(db, old) ==
    LET new == [tab \in DOMAIN db |-> db[tab] \ old[tab]]
        wells_data == outcome'.results.wells
        curves == outcome'.results.melt_curves
    IN  /\ \A tab \in DOMAIN db : old[tab] \subseteq db[tab]
        /\ \E e \in new.experiments :
              /\ new.experiments = {e}
              /\ e.file_name = basename(file_path')
              /\ e.run_name = DictGet(outcome'.results.metadata, "run_name")
              /\ new.wells = WellsOf(db, e)
              /\ new.melt_curves = CurvesOf(db, e)
              /\ Cardinality(new.wells) = Len(wells_data)
              /\ \A k \in 1..Len(wells_data) :
                    \E w \in new.wells, s \in db.samples :
                        /\ w.well_position = wells_data[k][1]
                        /\ w.tm_value = wells_data[k][2].tm_value
                        /\ w.sample_id = s.sample_id
                        /\ s.sample_name
                              = StoredSampleName(wells_data[k][2].sample_name,
                                                 e.experiment_id, wells_data[k][1])
              /\ \A s \in new.samples : \E w \in new.wells : w.sample_id = s.sample_id
              /\ Cardinality(new.melt_curves)
                    = Cardinality({k \in 1..Len(curves) :
                                      /\ curves[k].temperature_data # <<>>
                                      /\ curves[k].fluorescence_data # <<>>})

\* C8: per-file atomicity.  A call that returns True has committed the whole
\* of its file and nothing else; a call that returns False, and any call
\* that logged an error, has committed nothing; and no call leaves writes
\* behind in the connection for a later commit to pick up.
C8_PerFileAtomicity ==
    [][ /\ ret' => HoldsWholeFile(committed', committed)
        /\ ~ret' => committed' = committed
        /\ logged' = "Error processing" => ~ret'
        /\ pending' = committed' ]_vars

\* a file of two wells whose insertion raised, after another file went in
C8_Witness ==
    /\ logged = "Error processing"
    /\ ~ret
    /\ Len(outcome.results.wells) = 2
    /\ committed.experiments # {}
    /\ \A e \in committed.experiments : e.file_name # LastFileName
    /\ pending = committed

\* C9: duplicate runs are rejected.  When the store already holds an
\* experiment with the file name or the run name of the parsed file, the
\* call writes nothing and returns False; and no two committed experiments
\* share a file_name or a run_name.
NoTwoRunsAlike ==
    \A e1, e2 \in committed.experiments :
        (e1.file_name = e2.file_name \/ e1.run_name = e2.run_name) => e1 = e2
C9_DuplicateRunsRejected ==
    /\ []NoTwoRunsAlike
    /\ [][ ( /\ outcome'.kind = "result"
             /\ \E e \in committed.experiments :
                   \/ e.file_name = basename(file_path')
                   \/ e.run_name = DictGet(outcome'.results.metadata, "run_name") )
           => (~ret' /\ committed' = committed /\ pending' = pending) ]_vars

\* a second file with the defaulted run name, rejected for it
C9_Witness ==
    /\ outcome.kind = "result"
    /\ LastRunName = "Unknown Run"
    /\ logged = "Skipping: Already exists in database."
    /\ ~ret
    /\ \E e \in committed.experiments :
          e.run_name = "Unknown Run" /\ e.file_name # LastFileName

\* C10 as stated: the melt_curves table never receives a row, while the
\* experiment and well rows of every parsed, non-duplicate file are
\* committed.
FileWentIn ==
    \E e \in committed'.experiments \ committed.experiments :
        /\ e.file_name = basename(file_path')
        /\ Cardinality(WellsOf(committed', e)) = Len(outcome'.results.wells)
ParsedAndNew ==
    /\ outcome'.kind = "result"
    /\ ~experiment_exists(pending, basename(file_path'),
                          DictGet(outcome'.results.metadata, "run_name"))
============================================================================
